---- MODULE Spec2Model ----
(***************************************************************************)
(* Model of ptwinrm.py: the WinRM console (WinRMConsole, main).            *)
(*                                                                         *)
(* Text (Python str) is a sequence of Unicode code points; bytes are a     *)
(* sequence of values 0..255.  A value that may be None is a sequence of   *)
(* at most one element: None is <<>> and Some(x) is <<x>>.  Everything the *)
(* console prints with print() is one entry of `output`; what it hands to  *)
(* sys.excepthook (or what escapes main as a traceback) is one entry of    *)
(* `reported`.  These two, `calls` and `result` cover the steps made for    *)
(* the current input event (a submitted line, a key, a fault) and start    *)
(* afresh with the next one.                                               *)
(***************************************************************************)
EXTENDS Integers, Sequences, FiniteSets, TLC

VARIABLES
    shell,        \* WinRMConsole.shell
    encoding,     \* WinRMConsole.encoding
    multiline,    \* WinRMConsole.multiline
    runOpt,       \* opt['--run']: None or the text given
    pc,           \* position of the program
    mode,         \* who called rep(): "oneshot" (main) or "repl"; "none" before
    cmd_line,     \* the line being run (rep's argument)
    inflight,     \* a remote call of the session is outstanding
    calls,        \* remote calls issued for the current line / prompt query
    result,       \* value returned by run_cmd_line
    raised,       \* exception the remote call raised (None if it returned)
    prompt_msg,   \* repl's prompt_msg
    promptQueries,\* number of get_prompt remote queries issued
    output,       \* texts printed for the current input event
    reported,     \* exception types reported through excepthook / traceback
    toggleRet,    \* value returned by the last toggle_multiline
    preToggle,    \* multiline before the last toggle_multiline
    lastOp,       \* name of the step taken last
    exitStatus    \* process exit status (None while running)

vars == <<shell, encoding, multiline, runOpt, pc, mode, cmd_line, inflight,
          calls, result, raised, prompt_msg, promptQueries, output, reported,
          toggleRet, preToggle, lastOp, exitStatus>>

None == <<>>
Some(x) == <<x>>
The(o) == o[1]

(* ------------------------------ bounds --------------------------------- *)
MaxLineLen == 2      \* longest generated input line
MaxStatus == 3       \* remote exit codes 0..MaxStatus (plus fixed samples)

(* ---------------------------- characters ------------------------------- *)
LF == 10      \* '\n'
SP == 32      \* ' '

\* str.isspace(): the code points Python's str.strip()/str.split() remove
IsSpace(c) ==
    \/ c \in 9..13
    \/ c \in 28..32
    \/ c \in {133, 160, 5760, 8232, 8233, 8239, 8287, 12288}
    \/ c \in 8192..8202

\* bytes.strip(): ASCII whitespace only
IsByteSpace(b) == b \in {9, 10, 11, 12, 13, 32}

RECURSIVE LStrip(_)
LStrip(s) == IF s = <<>> THEN <<>>
             ELSE IF IsSpace(Head(s)) THEN LStrip(Tail(s)) ELSE s

RECURSIVE RStrip(_)
RStrip(s) == IF s = <<>> THEN <<>>
             ELSE IF IsSpace(s[Len(s)]) THEN RStrip(SubSeq(s, 1, Len(s) - 1))
             ELSE s

\* cmd_line.strip()
Strip(s) == RStrip(LStrip(s))

RECURSIVE BLStrip(_)
BLStrip(s) == IF s = <<>> THEN <<>>
              ELSE IF IsByteSpace(Head(s)) THEN BLStrip(Tail(s)) ELSE s

RECURSIVE BRStrip(_)
BRStrip(s) == IF s = <<>> THEN <<>>
              ELSE IF IsByteSpace(s[Len(s)])
                   THEN BRStrip(SubSeq(s, 1, Len(s) - 1))
              ELSE s

\* r.std_out.strip()
BytesStrip(s) == BRStrip(BLStrip(s))

\* cmd_line.split(): maximal runs of non-whitespace, in order
RECURSIVE SplitFrom(_, _, _)
SplitFrom(s, i, cur) ==
    IF i > Len(s)
    THEN IF cur = <<>> THEN <<>> ELSE <<cur>>
    ELSE IF IsSpace(s[i])
         THEN IF cur = <<>> THEN SplitFrom(s, i + 1, <<>>)
              ELSE <<cur>> \o SplitFrom(s, i + 1, <<>>)
         ELSE SplitFrom(s, i + 1, Append(cur, s[i]))

Split(s) == SplitFrom(s, 1, <<>>)

\* '\n' in cmd_line
HasNewline(s) == \E i \in 1..Len(s) : s[i] = LF

\* text.startswith(prefix)
StartsWith(s, p) == Len(s) >= Len(p) /\ SubSeq(s, 1, Len(p)) = p

\* '{0}'.format(n) for an integer n: decimal digits, '-' for negatives
RECURSIVE NatDigits(_)
NatDigits(n) == IF n < 10 THEN <<48 + n>>
                ELSE Append(NatDigits(n \div 10), 48 + (n % 10))

FormatInt(n) == IF n < 0 THEN <<45>> \o NatDigits(0 - n) ELSE NatDigits(n)

(* ----------------------------- decoding -------------------------------- *)
\* bytes.decode(encoding) raises UnicodeDecodeError on invalid input (the
\* default errors='strict'); the failure is the one-element value below.
DecodeFail == <<-1>>

IsCont(b) == b \in 128..191

RECURSIVE Utf8Decode(_)
Utf8Decode(b) ==
    IF b = <<>> THEN <<>>
    ELSE LET h == Head(b)
             n == IF h < 128 THEN 1
                  ELSE IF h \in 194..223 THEN 2
                  ELSE IF h \in 224..239 THEN 3
                  ELSE IF h \in 240..244 THEN 4
                  ELSE 0
         IN IF n = 0 \/ Len(b) < n THEN DecodeFail
            ELSE IF \E k \in 2..n : ~IsCont(b[k]) THEN DecodeFail
            ELSE IF n = 3 /\ ((h = 224 /\ b[2] < 160) \/ (h = 237 /\ b[2] > 159))
                 THEN DecodeFail
            ELSE IF n = 4 /\ ((h = 240 /\ b[2] < 144) \/ (h = 244 /\ b[2] > 143))
                 THEN DecodeFail
            ELSE LET cp == IF n = 1 THEN h
                           ELSE IF n = 2 THEN (h - 192) * 64 + (b[2] - 128)
                           ELSE IF n = 3
                                THEN (h - 224) * 4096 + (b[2] - 128) * 64
                                     + (b[3] - 128)
                           ELSE (h - 240) * 262144 + (b[2] - 128) * 4096
                                + (b[3] - 128) * 64 + (b[4] - 128)
                     rest == Utf8Decode(SubSeq(b, n + 1, Len(b)))
                 IN IF rest = DecodeFail THEN DecodeFail ELSE <<cp>> \o rest

AsciiDecode(b) ==
    IF \E i \in 1..Len(b) : b[i] > 127 THEN DecodeFail ELSE b

\* bytes.decode(self.encoding), for the two encodings of the model
Decode(b, enc) ==
    IF enc = "ascii" THEN AsciiDecode(b) ELSE Utf8Decode(b)

(* ------------------------------ texts ---------------------------------- *)
TxtErrorOpen == <<69, 82, 82, 79, 82, 32, 40>>                 \* "ERROR ("
TxtErrorMid == <<41, 58, 32>>                                  \* "): "
TxtErrorClose == <<41>>                                        \* ")"
TxtError == <<69, 82, 82, 79, 82, 58, 32>>                     \* "ERROR: "
TxtErrorTag == <<69, 82, 82, 79, 82, 58>>                      \* "ERROR:"
ClixmlMarker == <<35, 60, 32, 67, 76, 73, 88, 77, 76>>         \* "#< CLIXML"
TxtPS == <<80, 83, 32>>                                        \* "PS "
TxtPSEnd == <<62, 32>>                                         \* "> "
TxtCmdEnd == <<62>>                                            \* ">"
PwdQuery == <<40, 112, 119, 100, 41, 46, 80, 97, 116, 104>>    \* "(pwd).Path"
CdQuery == <<99, 100>>                                         \* "cd"
\* "\nCtrl-C pressed. Bailing out!"
TxtFarewell == <<10, 67, 116, 114, 108, 45, 67, 32, 112, 114, 101, 115, 115,
                 101, 100, 46, 32, 66, 97, 105, 108, 105, 110, 103, 32, 111,
                 117, 116, 33>>
\* "Set multiline"
TxtSetMultiline == <<83, 101, 116, 32, 109, 117, 108, 116, 105, 108, 105,
                     110, 101>>
TxtON == <<79, 78>>                                            \* "ON"
TxtOff == <<111, 102, 102>>                                    \* "off"
\* "'NoneType' object has no attribute 'std_out'"
TxtNoStdOut == <<39, 78, 111, 110, 101, 84, 121, 112, 101, 39, 32, 111, 98,
                 106, 101, 99, 116, 32, 104, 97, 115, 32, 110, 111, 32, 97,
                 116, 116, 114, 105, 98, 117, 116, 101, 32, 39, 115, 116,
                 100, 95, 111, 117, 116, 39>>
\* str() of a UnicodeDecodeError, shortened to "codec can't decode bytes"
TxtCantDecode == <<99, 111, 100, 101, 99, 32, 99, 97, 110, 39, 116, 32, 100,
                   101, 99, 111, 100, 101, 32, 98, 121, 116, 101, 115>>

(* --------------------------- sample values ----------------------------- *)
TxtIpconfigAll == <<105, 112, 99, 111, 110, 102, 105, 103, 32, 47, 97, 108,
                    108>>                                      \* "ipconfig /all"
TxtIpconfig == <<105, 112, 99, 111, 110, 102, 105, 103>>       \* "ipconfig"
TxtAll == <<47, 97, 108, 108>>                                 \* "/all"
TxtHi == <<104, 105>>                                          \* "hi"
TxtOK == <<79, 75>>                                            \* "OK"
TxtBadArg == <<98, 97, 100, 32, 97, 114, 103>>                 \* "bad arg"
\* "not a wrapper"
TxtNotAWrapper == <<110, 111, 116, 32, 97, 32, 119, 114, 97, 112, 112, 101,
                    114>>
TxtClixmlRec == ClixmlMarker \o <<32, 114, 101, 99>>           \* "#< CLIXML rec"
TxtClixmShort == <<35, 60, 32, 67, 76, 73, 88, 77>>            \* "#< CLIXM"
BytesEAcute == <<195, 169>>          \* UTF-8 for U+00E9; not ASCII
BytesDir == <<67, 58, 92, 13, 10>>   \* "C:\\\r\n"
TxtDenied == <<100, 101, 110, 105, 101, 100>>                  \* "denied"
TxtRefused == <<114, 101, 102, 117, 115, 101, 100>>            \* "refused"

\* a blank, a line break and the letter "a"
LineAlphabet == {SP, LF, 97}

TxtALfA == <<97, 10, 97>>            \* "a\na"
TxtBlankLf == <<32, 10, 32>>         \* " \n "
TxtATabSlash == <<97, 9, 47>>        \* "a\t/"

RECURSIVE SeqsUpTo(_, _)
SeqsUpTo(S, n) ==
    IF n = 0 THEN {<<>>}
    ELSE LET shorter == SeqsUpTo(S, n - 1)
         IN shorter \cup {Append(s, c) : s \in shorter, c \in S}

\* the lines the operator (or --run) can supply
Lines == SeqsUpTo(LineAlphabet, MaxLineLen)
         \cup {TxtIpconfigAll, TxtALfA, TxtBlankLf, TxtATabSlash}

Shells == {"cmd", "powershell"}
Encodings == {"ascii", "utf-8"}

\* exit codes a remote command reports
StatusCodes == {Some(n) : n \in 0..MaxStatus \cup {12}}
StdOuts == {<<>>, BytesEAcute, BytesDir}
StdErrs == {<<>>, TxtBadArg, TxtClixmlRec, TxtClixmShort, BytesEAcute}

\* winrm.Response objects the session returns
Results == [status_code : StatusCodes, std_out : StdOuts, std_err : StdErrs]

\* exceptions a remote call raises instead of returning
Failures ==
    [type : {"InvalidCredentialsError", "ConnectionError"},
     msg : {TxtDenied, TxtRefused}]
    \cup {[type |-> "OtherError", msg |-> TxtRefused],
          [type |-> "KeyboardInterrupt", msg |-> <<>>]}

(* ------------------------ WinRMConsole, pure parts --------------------- *)
\* variant: only the empty line counts as blank (no strip)
RunCmdLineNoStrip(sh, line) ==
    IF line = <<>> THEN None
    ELSE IF HasNewline(line) \/ sh = "powershell"
         THEN Some([fn |-> "run_ps", cmd |-> line, args |-> <<>>])
         ELSE LET cmd == Split(line)
              IN IF cmd = <<>> THEN None
                 ELSE Some([fn |-> "run_cmd", cmd |-> cmd[1],
                            args |-> Tail(cmd)])

\* variant: the line break is not looked at, only the shell
RunCmdLineShellOnly(sh, line) ==
    IF Strip(line) = <<>> THEN None
    ELSE IF sh = "powershell"
         THEN Some([fn |-> "run_ps", cmd |-> line, args |-> <<>>])
         ELSE LET cmd == Split(line)
              IN Some([fn |-> "run_cmd", cmd |-> cmd[1], args |-> Tail(cmd)])

\* variant: the command token is passed again as first argument (cmd[0:])
RunCmdLineAllArgs(sh, line) ==
    IF Strip(line) = <<>> THEN None
    ELSE IF HasNewline(line) \/ sh = "powershell"
         THEN Some([fn |-> "run_ps", cmd |-> line, args |-> <<>>])
         ELSE LET cmd == Split(line)
              IN Some([fn |-> "run_cmd", cmd |-> cmd[1], args |-> cmd])

\* the remote call __run_cmd_line makes for a line: None for a blank line,
\* run_ps(line) or run_cmd(cmd[0], cmd[1:])
RunCmdLine(sh, line) ==
    IF Strip(line) = <<>> THEN None
    ELSE IF HasNewline(line) \/ sh = "powershell"
         THEN Some([fn |-> "run_ps", cmd |-> line, args |-> <<>>])
         ELSE LET cmd == Split(line)
              IN Some([fn |-> "run_cmd", cmd |-> cmd[1], args |-> Tail(cmd)])

\* variant: the except clause names InvalidCredentialsError only
CaughtCredentialsOnly(type) == type = "InvalidCredentialsError"

\* the except clause of run_cmd_line
CaughtByRunCmdLine(type) ==
    type \in {"InvalidCredentialsError", "ConnectionError"}

\* print('ERROR:', error)
PrintError(msg) == TxtErrorTag \o <<SP>> \o msg

\* truth value of result.status_code
StatusTruthy(code) == code # None /\ code # Some(0)

\* truth value of result.std_err (bytes)
BytesTruthy(b) == b # <<>>

\* variant: the nonzero branch prints the status without the stderr text
HandleErrOutNoStderr(r, enc) ==
    LET err == Decode(r.std_err, enc)
    IN IF StatusTruthy(r.status_code)
       THEN IF BytesTruthy(r.std_err) /\ err = DecodeFail THEN <<>>
            ELSE <<TxtErrorOpen \o FormatInt(The(r.status_code))
                   \o TxtErrorClose>>
       ELSE IF BytesTruthy(r.std_err)
            THEN IF err = DecodeFail THEN <<>>
                 ELSE IF ~StartsWith(err, ClixmlMarker)
                      THEN <<TxtError \o err>>
                      ELSE <<>>
            ELSE <<>>

\* variant: the CLIXML test is missing from the zero branch
HandleErrOutNoClixml(r, enc) ==
    LET err == Decode(r.std_err, enc)
    IN IF StatusTruthy(r.status_code)
       THEN IF BytesTruthy(r.std_err)
            THEN IF err = DecodeFail THEN <<>>
                 ELSE <<TxtErrorOpen \o FormatInt(The(r.status_code))
                        \o TxtErrorMid \o err>>
            ELSE <<TxtErrorOpen \o FormatInt(The(r.status_code))
                   \o TxtErrorClose>>
       ELSE IF BytesTruthy(r.std_err)
            THEN IF err = DecodeFail THEN <<>> ELSE <<TxtError \o err>>
            ELSE <<>>

\* variant: the CLIXML test is made in the nonzero branch as well
HandleErrOutSymmetric(r, enc) ==
    LET err == Decode(r.std_err, enc)
    IN IF BytesTruthy(r.std_err)
       THEN IF err = DecodeFail THEN <<>>
            ELSE IF StartsWith(err, ClixmlMarker) THEN <<>>
            ELSE IF StatusTruthy(r.status_code)
                 THEN <<TxtErrorOpen \o FormatInt(The(r.status_code))
                        \o TxtErrorMid \o err>>
                 ELSE <<TxtError \o err>>
       ELSE IF StatusTruthy(r.status_code)
            THEN <<TxtErrorOpen \o FormatInt(The(r.status_code))
                   \o TxtErrorClose>>
            ELSE <<>>

\* the error part of handle_cmd_result, after std_out was printed:
\* the texts printed until the method returns or a decode raises
HandleErrOut(r, enc) ==
    LET err == Decode(r.std_err, enc)
    IN IF StatusTruthy(r.status_code)
       THEN IF BytesTruthy(r.std_err)
            THEN IF err = DecodeFail THEN <<>>
                 ELSE <<TxtErrorOpen \o FormatInt(The(r.status_code))
                        \o TxtErrorMid \o err>>
            ELSE <<TxtErrorOpen \o FormatInt(The(r.status_code)) \o TxtErrorClose>>
       ELSE IF BytesTruthy(r.std_err)
            THEN IF err = DecodeFail THEN <<>>
                 ELSE IF ~StartsWith(err, ClixmlMarker)
                      THEN <<TxtError \o err>>
                      ELSE <<>>
            ELSE <<>>

\* variant: std_out is printed only when it is not empty
HandleOutSkipEmpty(result_, enc) ==
    IF result_ = None THEN <<>>
    ELSE LET r == The(result_)
             out == Decode(r.std_out, enc)
         IN IF out = DecodeFail THEN <<>>
            ELSE (IF out = <<>> THEN <<>> ELSE <<out>>) \o HandleErrOut(r, enc)

\* the texts handle_cmd_result prints, in order
HandleOut(result_, enc) ==
    IF result_ = None THEN <<>>
    ELSE LET r == The(result_)
             out == Decode(r.std_out, enc)
         IN IF out = DecodeFail THEN <<>>
            ELSE <<out>> \o HandleErrOut(r, enc)

\* variant: only std_out is decoded strictly
HandleRaisesStdOutOnly(result_, enc) ==
    /\ result_ # None
    /\ Decode(The(result_).std_out, enc) = DecodeFail

\* handle_cmd_result raises UnicodeDecodeError
HandleRaises(result_, enc) ==
    /\ result_ # None
    /\ LET r == The(result_)
       IN \/ Decode(r.std_out, enc) = DecodeFail
          \/ BytesTruthy(r.std_err) /\ Decode(r.std_err, enc) = DecodeFail

\* variant: the flag is set instead of flipped
ToggleMultilineSet(m) == TRUE

\* toggle_multiline: the new value of self.multiline
ToggleMultiline(m) == ~m

\* variant: undecodable bytes are dropped instead of raising
PromptTextLenient(sh, r, enc) ==
    LET path == Decode(BytesStrip(r.std_out), enc)
    IN IF sh = "powershell"
       THEN TxtPS \o (IF path = DecodeFail THEN <<>> ELSE path) \o TxtPSEnd
       ELSE (IF path = DecodeFail THEN <<>> ELSE path) \o TxtCmdEnd

\* get_prompt's text for a query result
PromptText(sh, r, enc) ==
    LET path == Decode(BytesStrip(r.std_out), enc)
    IN IF path = DecodeFail THEN DecodeFail
       ELSE IF sh = "powershell" THEN TxtPS \o path \o TxtPSEnd
       ELSE path \o TxtCmdEnd

\* get_prompt's query line
PromptQuery(sh) == IF sh = "powershell" THEN PwdQuery ELSE CdQuery

\* main: truth value of opt['--run']
RunGiven(opt) == opt # None /\ The(opt) # <<>>

\* main: cmd_result.status_code if cmd_result else 1
ExitCode(result_) ==
    IF result_ # None THEN The(The(result_).status_code) ELSE 1

(* ------------------------------- program ------------------------------- *)
\* main up to the construction of the console (WinRMConsole.__init__)
Init ==
    /\ shell \in Shells
    /\ encoding \in Encodings
    /\ multiline = FALSE
    /\ runOpt \in {None} \cup {Some(line) : line \in Lines}
    /\ pc = "main"
    /\ mode = "none"
    /\ cmd_line = <<>>
    /\ inflight = FALSE
    /\ calls = <<>>
    /\ result = None
    /\ raised = None
    /\ prompt_msg = <<>>
    /\ promptQueries = 0
    /\ output = <<>>
    /\ reported = <<>>
    /\ toggleRet = FALSE
    /\ preToggle = FALSE
    /\ lastOp = "init"
    /\ exitStatus = None

\* main: if opt['--run']: ... else console.repl()
Main ==
    /\ pc = "main"
    /\ IF RunGiven(runOpt)
       THEN /\ mode' = "oneshot"
            /\ cmd_line' = The(runOpt)
            /\ pc' = "Dispatching"
       ELSE /\ mode' = "repl"
            /\ cmd_line' = cmd_line
            /\ pc' = "Starting"
    /\ lastOp' = "Main"
    /\ UNCHANGED <<shell, encoding, multiline, runOpt, inflight, calls, result,
                   raised, prompt_msg, promptQueries, output, reported,
                   toggleRet, preToggle, exitStatus>>

\* repl: get_prompt issues its query through run_cmd_line
GetPromptCall ==
    /\ pc = "Starting"
    /\ ~inflight
    /\ cmd_line' = PromptQuery(shell)
    /\ calls' = Append(calls, The(RunCmdLine(shell, PromptQuery(shell))))
    /\ inflight' = TRUE
    /\ promptQueries' = promptQueries + 1
    /\ lastOp' = "GetPromptCall"
    /\ UNCHANGED <<shell, encoding, multiline, runOpt, pc, mode, result,
                   raised, prompt_msg, output, reported, toggleRet, preToggle,
                   exitStatus>>

\* repl: the query returns a result; get_prompt formats it, or its decode
\* raises and repl prints the error and returns
GetPromptResult(r) ==
    /\ result' = Some(r)
    /\ raised' = None
    /\ IF PromptText(shell, r, encoding) = DecodeFail
       THEN /\ output' = Append(output, TxtError \o TxtCantDecode)
            /\ prompt_msg' = prompt_msg
            /\ pc' = "Terminated"
            /\ exitStatus' = Some(0)
       ELSE /\ output' = output
            /\ prompt_msg' = PromptText(shell, r, encoding)
            /\ pc' = "AwaitingInput"
            /\ exitStatus' = exitStatus
    /\ reported' = reported

\* repl: the query raises
GetPromptFailure(f) ==
    /\ result' = None
    /\ raised' = Some(f)
    /\ prompt_msg' = prompt_msg
    /\ IF CaughtByRunCmdLine(f.type)
       THEN \* run_cmd_line prints and returns None; r.std_out then raises
            \* AttributeError, which repl prints before returning
            /\ output' = output \o <<PrintError(f.msg), TxtError \o TxtNoStdOut>>
            /\ reported' = reported
            /\ pc' = "Terminated"
            /\ exitStatus' = Some(0)
       ELSE IF f.type = "KeyboardInterrupt"
       THEN \* not an Exception: leaves repl and main as a traceback
            /\ output' = output
            /\ reported' = Append(reported, f.type)
            /\ pc' = "Crashed"
            /\ exitStatus' \in {Some(1), Some(130)}
       ELSE /\ output' = Append(output, TxtError \o f.msg)
            /\ reported' = reported
            /\ pc' = "Terminated"
            /\ exitStatus' = Some(0)

GetPromptReturn ==
    /\ pc = "Starting"
    /\ inflight
    /\ inflight' = FALSE
    /\ \/ \E r \in Results : GetPromptResult(r)
       \/ \E f \in Failures : GetPromptFailure(f)
    /\ lastOp' = "GetPromptReturn"
    /\ UNCHANGED <<shell, encoding, multiline, runOpt, mode, cmd_line, calls,
                   promptQueries, toggleRet, preToggle>>

\* repl: ppt(...) returns a line.  The line may hold line breaks whatever
\* self.multiline is (pasted text, or Ctrl-T pressed while editing).
Submit ==
    /\ pc = "AwaitingInput"
    /\ \E line \in Lines : cmd_line' = line
    /\ pc' = "Dispatching"
    /\ calls' = <<>>
    /\ result' = None
    /\ raised' = None
    /\ output' = <<>>
    /\ reported' = <<>>
    /\ lastOp' = "Submit"
    /\ UNCHANGED <<shell, encoding, multiline, runOpt, mode, inflight,
                   prompt_msg, promptQueries, toggleRet, preToggle, exitStatus>>

\* variant: the toggle also forgets the prompt text
ToggleKeyClearsPrompt ==
    /\ pc = "AwaitingInput"
    /\ preToggle' = multiline
    /\ multiline' = ToggleMultiline(multiline)
    /\ toggleRet' = multiline'
    /\ output' = <<TxtSetMultiline \o <<SP>>
                   \o (IF multiline' THEN TxtON ELSE TxtOff)>>
    /\ reported' = <<>>
    /\ calls' = <<>>
    /\ result' = None
    /\ raised' = None
    /\ prompt_msg' = <<>>
    /\ lastOp' = "ToggleKey"
    /\ UNCHANGED <<shell, encoding, runOpt, pc, mode, cmd_line, inflight,
                   promptQueries, exitStatus>>

\* repl: Ctrl-T while the prompt is shown (update_multiline)
ToggleKey ==
    /\ pc = "AwaitingInput"
    /\ preToggle' = multiline
    /\ multiline' = ToggleMultiline(multiline)
    /\ toggleRet' = multiline'
    /\ output' = <<TxtSetMultiline \o <<SP>>
                   \o (IF multiline' THEN TxtON ELSE TxtOff)>>
    /\ reported' = <<>>
    /\ calls' = <<>>
    /\ result' = None
    /\ raised' = None
    /\ lastOp' = "ToggleKey"
    /\ UNCHANGED <<shell, encoding, runOpt, pc, mode, cmd_line, inflight,
                   prompt_msg, promptQueries, exitStatus>>

\* variant: the farewell is printed but the loop is not left
InputEndNoBreak ==
    /\ pc = "AwaitingInput"
    /\ output' = <<TxtFarewell>>
    /\ reported' = <<>>
    /\ calls' = <<>>
    /\ result' = None
    /\ raised' = None
    /\ lastOp' = "InputEnd"
    /\ UNCHANGED <<shell, encoding, multiline, runOpt, pc, mode, cmd_line,
                   inflight, prompt_msg, promptQueries, toggleRet, preToggle,
                   exitStatus>>

\* repl: ppt(...) raises EOFError or KeyboardInterrupt
InputEnd ==
    /\ pc = "AwaitingInput"
    /\ output' = <<TxtFarewell>>
    /\ reported' = <<>>
    /\ pc' = "Terminated"
    /\ exitStatus' = Some(0)
    /\ calls' = <<>>
    /\ result' = None
    /\ raised' = None
    /\ lastOp' = "InputEnd"
    /\ UNCHANGED <<shell, encoding, multiline, runOpt, mode, cmd_line, inflight,
                   prompt_msg, promptQueries, toggleRet, preToggle>>

\* variant: the fault is not caught and ends the process
InputFaultEscapes ==
    /\ pc = "AwaitingInput"
    /\ output' = <<>>
    /\ reported' = <<"InputFault">>
    /\ calls' = <<>>
    /\ result' = None
    /\ raised' = None
    /\ pc' = "Crashed"
    /\ exitStatus' = Some(1)
    /\ lastOp' = "InputFault"
    /\ UNCHANGED <<shell, encoding, multiline, runOpt, mode, cmd_line,
                   inflight, prompt_msg, promptQueries, toggleRet, preToggle>>

\* repl: ppt(...) raises anything else; the bare except reports it
InputFault ==
    /\ pc = "AwaitingInput"
    /\ output' = <<>>
    /\ reported' = <<"InputFault">>
    /\ calls' = <<>>
    /\ result' = None
    /\ raised' = None
    /\ lastOp' = "InputFault"
    /\ UNCHANGED <<shell, encoding, multiline, runOpt, pc, mode, cmd_line,
                   inflight, prompt_msg, promptQueries, toggleRet, preToggle,
                   exitStatus>>

\* rep -> run_cmd_line -> __run_cmd_line, up to the remote call
Dispatch ==
    /\ pc = "Dispatching"
    /\ ~inflight
    /\ IF RunCmdLine(shell, cmd_line) = None
       THEN /\ result' = None
            /\ pc' = "Rendering"
            /\ UNCHANGED <<calls, inflight>>
       ELSE /\ calls' = Append(calls, The(RunCmdLine(shell, cmd_line)))
            /\ inflight' = TRUE
            /\ UNCHANGED <<result, pc>>
    /\ lastOp' = "Dispatch"
    /\ UNCHANGED <<shell, encoding, multiline, runOpt, mode, cmd_line, raised,
                   prompt_msg, promptQueries, output, reported, toggleRet,
                   preToggle, exitStatus>>

\* variant: the loop's first except clause names EOFError only, so an
\* interrupt during rep is reported by the bare except and the loop goes on
RemoteFailureInterruptReported(f) ==
    /\ result' = None
    /\ raised' = Some(f)
    /\ IF CaughtByRunCmdLine(f.type)
       THEN /\ output' = Append(output, PrintError(f.msg))
            /\ reported' = reported
            /\ pc' = "Rendering"
            /\ exitStatus' = exitStatus
       ELSE IF mode = "repl"
       THEN /\ output' = output
            /\ reported' = Append(reported, f.type)
            /\ pc' = "AwaitingInput"
            /\ exitStatus' = exitStatus
       ELSE /\ output' = output
            /\ reported' = Append(reported, f.type)
            /\ pc' = "Crashed"
            /\ IF f.type = "KeyboardInterrupt"
               THEN exitStatus' \in {Some(1), Some(130)}
               ELSE exitStatus' = Some(1)

\* variant: the try block of the loop covers the prompt only, so an
\* exception of rep leaves repl and main
RemoteFailureFailFast(f) ==
    /\ result' = None
    /\ raised' = Some(f)
    /\ IF CaughtByRunCmdLine(f.type)
       THEN /\ output' = Append(output, PrintError(f.msg))
            /\ reported' = reported
            /\ pc' = "Rendering"
            /\ exitStatus' = exitStatus
       ELSE /\ output' = output
            /\ reported' = Append(reported, f.type)
            /\ pc' = "Crashed"
            /\ IF f.type = "KeyboardInterrupt"
               THEN exitStatus' \in {Some(1), Some(130)}
               ELSE exitStatus' = Some(1)

\* the remote call raises f
RemoteFailure(f) ==
    /\ result' = None
    /\ raised' = Some(f)
    /\ IF CaughtByRunCmdLine(f.type)
       THEN /\ output' = Append(output, PrintError(f.msg))
            /\ reported' = reported
            /\ pc' = "Rendering"
            /\ exitStatus' = exitStatus
       ELSE IF mode = "repl"
       THEN IF f.type = "KeyboardInterrupt"
            THEN /\ output' = Append(output, TxtFarewell)
                 /\ reported' = reported
                 /\ pc' = "Terminated"
                 /\ exitStatus' = Some(0)
            ELSE /\ output' = output
                 /\ reported' = Append(reported, f.type)
                 /\ pc' = "AwaitingInput"
                 /\ exitStatus' = exitStatus
       ELSE /\ output' = output
            /\ reported' = Append(reported, f.type)
            /\ pc' = "Crashed"
            /\ IF f.type = "KeyboardInterrupt"
               THEN exitStatus' \in {Some(1), Some(130)}
               ELSE exitStatus' = Some(1)

\* variant: after an error run_cmd_line caught, the call is issued again
RemoteReturnRetry ==
    /\ pc = "Dispatching"
    /\ inflight
    /\ \/ \E r \in Results :
            /\ result' = Some(r)
            /\ raised' = None
            /\ pc' = "Rendering"
            /\ inflight' = FALSE
            /\ UNCHANGED <<output, reported, exitStatus, calls>>
       \/ \E f \in Failures :
            IF CaughtByRunCmdLine(f.type)
            THEN /\ result' = None
                 /\ raised' = Some(f)
                 /\ output' = Append(output, PrintError(f.msg))
                 /\ calls' = Append(calls, calls[1])
                 /\ inflight' = TRUE
                 /\ UNCHANGED <<reported, pc, exitStatus>>
            ELSE /\ RemoteFailure(f)
                 /\ inflight' = FALSE
                 /\ calls' = calls
    /\ lastOp' = "RemoteReturn"
    /\ UNCHANGED <<shell, encoding, multiline, runOpt, mode, cmd_line,
                   prompt_msg, promptQueries, toggleRet, preToggle>>

\* the remote call of rep returns or raises
RemoteReturn ==
    /\ pc = "Dispatching"
    /\ inflight
    /\ inflight' = FALSE
    /\ \/ \E r \in Results :
            /\ result' = Some(r)
            /\ raised' = None
            /\ pc' = "Rendering"
            /\ UNCHANGED <<output, reported, exitStatus>>
       \/ \E f \in Failures : RemoteFailure(f)
    /\ lastOp' = "RemoteReturn"
    /\ UNCHANGED <<shell, encoding, multiline, runOpt, mode, cmd_line, calls,
                   prompt_msg, promptQueries, toggleRet, preToggle>>

\* variant: after each command of the loop the prompt is queried again
RenderRefreshesPrompt ==
    /\ pc = "Rendering"
    /\ mode \in {"repl", "oneshot"}
    /\ output' = output \o HandleOut(result, encoding)
    /\ IF HandleRaises(result, encoding)
       THEN /\ reported' = Append(reported, "UnicodeDecodeError")
            /\ IF mode = "repl"
               THEN pc' = "AwaitingInput" /\ exitStatus' = exitStatus
               ELSE pc' = "Crashed" /\ exitStatus' = Some(1)
       ELSE /\ reported' = reported
            /\ IF mode = "repl"
               THEN pc' = "AwaitingInput" /\ exitStatus' = exitStatus
               ELSE pc' = "Exited" /\ exitStatus' = Some(ExitCode(result))
    /\ IF mode = "repl"
       THEN /\ promptQueries' = promptQueries + 1
            /\ calls' = Append(calls, The(RunCmdLine(shell, PromptQuery(shell))))
            /\ \E r \in Results :
                  prompt_msg' = IF PromptText(shell, r, encoding) = DecodeFail
                                THEN prompt_msg
                                ELSE PromptText(shell, r, encoding)
       ELSE UNCHANGED <<promptQueries, calls, prompt_msg>>
    /\ lastOp' = "Render"
    /\ UNCHANGED <<shell, encoding, multiline, runOpt, mode, cmd_line, inflight,
                   result, raised, toggleRet, preToggle>>

\* rep: handle_cmd_result(result), then back in repl's loop or in main
Render ==
    /\ pc = "Rendering"
    /\ mode \in {"repl", "oneshot"}
    /\ output' = output \o HandleOut(result, encoding)
    /\ IF HandleRaises(result, encoding)
       THEN /\ reported' = Append(reported, "UnicodeDecodeError")
            /\ IF mode = "repl"
               THEN pc' = "AwaitingInput" /\ exitStatus' = exitStatus
               ELSE pc' = "Crashed" /\ exitStatus' = Some(1)
       ELSE /\ reported' = reported
            /\ IF mode = "repl"
               THEN pc' = "AwaitingInput" /\ exitStatus' = exitStatus
               ELSE pc' = "Exited" /\ exitStatus' = Some(ExitCode(result))
    /\ lastOp' = "Render"
    /\ UNCHANGED <<shell, encoding, multiline, runOpt, mode, cmd_line, inflight,
                   calls, result, raised, prompt_msg, promptQueries, toggleRet,
                   preToggle>>

Next ==
    \/ Main
    \/ GetPromptCall
    \/ GetPromptReturn
    \/ Submit
    \/ ToggleKey
    \/ InputEnd
    \/ InputFault
    \/ Dispatch
    \/ RemoteReturn
    \/ Render

Spec == Init /\ [][Next]_vars

(* -------------------- handle_cmd_result on its own --------------------- *)
\* any value handle_cmd_result accepts: None, or a result whose status_code
\* is an integer or None
ResultsAny ==
    {None} \cup {Some(r) : r \in [status_code : StatusCodes \cup {None},
                                  std_out : StdOuts \cup {TxtHi, TxtOK},
                                  std_err : StdErrs \cup {TxtNotAWrapper}]}

InitInterpret ==
    /\ shell \in Shells
    /\ encoding \in Encodings
    /\ multiline = FALSE
    /\ runOpt = None
    /\ pc = "Rendering"
    /\ mode = "call"
    /\ cmd_line = <<>>
    /\ inflight = FALSE
    /\ calls = <<>>
    /\ result \in ResultsAny
    /\ raised = None
    /\ prompt_msg = <<>>
    /\ promptQueries = 0
    /\ output = <<>>
    /\ reported = <<>>
    /\ toggleRet = FALSE
    /\ preToggle = FALSE
    /\ lastOp = "init"
    /\ exitStatus = None

\* one call of handle_cmd_result(result)
HandleCmdResult ==
    /\ pc = "Rendering"
    /\ mode = "call"
    /\ output' = output \o HandleOut(result, encoding)
    /\ reported' = IF HandleRaises(result, encoding)
                   THEN Append(reported, "UnicodeDecodeError")
                   ELSE reported
    /\ pc' = "Returned"
    /\ lastOp' = "HandleCmdResult"
    /\ UNCHANGED <<shell, encoding, multiline, runOpt, mode, cmd_line, inflight,
                   calls, result, raised, prompt_msg, promptQueries, toggleRet,
                   preToggle, exitStatus>>

NextInterpret == HandleCmdResult

SpecInterpret == InitInterpret /\ [][NextInterpret]_vars

(* ------------------------------ properties ----------------------------- *)
\* a line that is empty or holds only whitespace
IsBlank(line) == \A i \in 1..Len(line) : IsSpace(line[i])

\* the concatenation of a sequence of texts
RECURSIVE Flatten(_)
Flatten(ts) == IF ts = <<>> THEN <<>> ELSE Head(ts) \o Flatten(Tail(ts))

\* the line without its whitespace
RECURSIVE NonSpace(_)
NonSpace(line) ==
    IF line = <<>> THEN <<>>
    ELSE IF IsSpace(Head(line)) THEN NonSpace(Tail(line))
    ELSE <<Head(line)>> \o NonSpace(Tail(line))

\* number of maximal runs of non-whitespace in the line
WordCount(line) ==
    Cardinality({i \in 1..Len(line) :
                    /\ ~IsSpace(line[i])
                    /\ (i = 1 \/ IsSpace(line[i - 1]))})

\* C1: for an empty or whitespace-only line, in either shell, dispatch
\* returns None, makes no run_cmd / run_ps call, and handling that None
\* prints nothing.
C1_BlankLineDispatchesNothing ==
    /\ (lastOp = "Dispatch" /\ IsBlank(cmd_line))
         => /\ result = None
            /\ calls = <<>>
            /\ ~inflight
            /\ pc = "Rendering"
    /\ (lastOp = "Render" /\ IsBlank(cmd_line))
         => /\ calls = <<>>
            /\ output = <<>>
            /\ reported = <<>>

C1_Witness ==
    /\ lastOp = "Render"
    /\ mode = "repl"
    /\ shell = "powershell"
    /\ cmd_line = TxtBlankLf
    /\ calls = <<>>
    /\ output = <<>>

\* C2 as stated: every line with a line break, and every line in powershell
\* mode, is sent whole to run_ps, and run_cmd is not called.
C2_Original ==
    (lastOp = "Dispatch" /\ (HasNewline(cmd_line) \/ shell = "powershell"))
        => calls = <<[fn |-> "run_ps", cmd |-> cmd_line, args |-> <<>>]>>

\* C2 amended: every line that is not blank and holds a line break, and every
\* line that is not blank in powershell mode, is sent whole to run_ps, and
\* run_cmd is not called.
C2_NonBlankScriptLine ==
    (/\ lastOp = "Dispatch"
     /\ ~IsBlank(cmd_line)
     /\ (HasNewline(cmd_line) \/ shell = "powershell"))
        => /\ calls = <<[fn |-> "run_ps", cmd |-> cmd_line, args |-> <<>>]>>
           /\ inflight

C2_Witness ==
    /\ lastOp = "Dispatch"
    /\ shell = "cmd"
    /\ cmd_line = TxtALfA
    /\ calls = <<[fn |-> "run_ps", cmd |-> cmd_line, args |-> <<>>]>>

\* C3: a non-blank line without line break in cmd mode is split on
\* whitespace; run_cmd gets the first token as command and the other
\* tokens, in order, as arguments; run_ps is not called.
C3_NativeLineSplit ==
    (/\ lastOp = "Dispatch"
     /\ ~IsBlank(cmd_line)
     /\ ~HasNewline(cmd_line)
     /\ shell = "cmd")
        => /\ Len(calls) = 1
           /\ inflight
           /\ calls[1].fn = "run_cmd"
           /\ LET tokens == <<calls[1].cmd>> \o calls[1].args
              IN /\ Len(tokens) = WordCount(cmd_line)
                 /\ Flatten(tokens) = NonSpace(cmd_line)
                 /\ \A k \in 1..Len(tokens) :
                        /\ tokens[k] # <<>>
                        /\ \A i \in 1..Len(tokens[k]) : ~IsSpace(tokens[k][i])
           /\ cmd_line = TxtIpconfigAll
                => calls[1].cmd = TxtIpconfig /\ calls[1].args = <<TxtAll>>

C3_Witness ==
    /\ lastOp = "Dispatch"
    /\ shell = "cmd"
    /\ cmd_line = TxtIpconfigAll
    /\ calls = <<[fn |-> "run_cmd", cmd |-> TxtIpconfig, args |-> <<TxtAll>>]>>

\* "ERROR (2): bad arg"
TxtError2BadArg == <<69, 82, 82, 79, 82, 32, 40, 50, 41, 58, 32, 98, 97, 100,
                     32, 97, 114, 103>>
\* "ERROR (12)"
TxtError12 == <<69, 82, 82, 79, 82, 32, 40, 49, 50, 41>>
\* "ERROR: not a wrapper"
TxtErrorNotAWrapper == <<69, 82, 82, 79, 82, 58, 32, 110, 111, 116, 32, 97,
                         32, 119, 114, 97, 112, 112, 101, 114>>

\* handle_cmd_result has returned or raised for a result that is not None
Handled == result # None /\ (pc = "Returned" \/ lastOp = "Render")

\* both streams of the handled result decode in the console's encoding
StdOutDecodes == Decode(The(result).std_out, encoding) # DecodeFail
StdErrDecodes == Decode(The(result).std_err, encoding) # DecodeFail

\* the texts printed after the std_out text
ErrorLines == SubSeq(output, 2, Len(output))

\* the decoded text starts with "#< CLIXML"
HasMarker(text) ==
    /\ Len(text) >= 9
    /\ \A i \in 1..9 : text[i] = ClixmlMarker[i]

\* C4 as stated: the decoded std_out is printed exactly when it is not
\* empty, whatever the exit code; {2, "", "bad arg"} prints just
\* "ERROR (2): bad arg".
C4_Original ==
    (Handled /\ StdOutDecodes /\ StdErrDecodes)
        => LET out == Decode(The(result).std_out, encoding)
           IN /\ out # <<>> => (output # <<>> /\ output[1] = out)
              /\ out = <<>> => \A i \in 1..Len(output) : output[i] # <<>>
              /\ The(result) = [status_code |-> Some(2), std_out |-> <<>>,
                                std_err |-> TxtBadArg]
                    => output = <<TxtError2BadArg>>

\* C4 amended: the decoded std_out is always printed first, whatever the exit
\* code and also when it is empty (an empty line); at most one error text
\* follows it, so {2, "", "bad arg"} prints an empty line and then
\* "ERROR (2): bad arg".
C4_StdOutAlwaysPrinted ==
    (Handled /\ StdOutDecodes)
        => /\ Len(output) \in {1, 2}
           /\ output[1] = Decode(The(result).std_out, encoding)
           /\ Len(output) = 2 => SubSeq(output[2], 1, 5) = <<69, 82, 82, 79, 82>>
           /\ The(result) = [status_code |-> Some(2), std_out |-> <<>>,
                             std_err |-> TxtBadArg]
                 => output = <<<<>>, TxtError2BadArg>>

C4_Witness ==
    /\ Handled
    /\ The(result) = [status_code |-> Some(2), std_out |-> <<>>,
                      std_err |-> TxtBadArg]
    /\ output = <<<<>>, TxtError2BadArg>>

\* C5: for a status code that is present and nonzero, exactly one error text
\* is printed: "ERROR (<code>): <decoded stderr>" when std_err is not empty,
\* "ERROR (<code>)" when it is empty.
C5_NonzeroErrorLine ==
    (/\ Handled
     /\ The(result).status_code \notin {None, Some(0)}
     /\ StdOutDecodes
     /\ StdErrDecodes)
        => LET r == The(result)
               code == FormatInt(The(r.status_code))
               err == Decode(r.std_err, encoding)
           IN /\ ErrorLines =
                    IF r.std_err # <<>>
                    THEN <<TxtErrorOpen \o code \o TxtErrorMid \o err>>
                    ELSE <<TxtErrorOpen \o code \o TxtErrorClose>>
              /\ (r.status_code = Some(2) /\ r.std_err = TxtBadArg)
                    => ErrorLines = <<TxtError2BadArg>>
              /\ (r.status_code = Some(12) /\ r.std_err = <<>>)
                    => ErrorLines = <<TxtError12>>

C5_Witness ==
    /\ Handled
    /\ The(result).status_code = Some(12)
    /\ The(result).std_err = TxtClixmlRec
    /\ Len(output) = 2
    /\ output[2] = TxtErrorOpen \o <<49, 50>> \o TxtErrorMid \o TxtClixmlRec

\* C6: for a status code that is zero or None, "ERROR: <decoded stderr>" is
\* printed if and only if std_err is not empty and its text does not start
\* with "#< CLIXML"; otherwise no error text is printed.
C6_ZeroErrorLine ==
    (/\ Handled
     /\ The(result).status_code \in {None, Some(0)}
     /\ StdOutDecodes
     /\ StdErrDecodes)
        => LET r == The(result)
               err == Decode(r.std_err, encoding)
           IN /\ ErrorLines =
                    IF r.std_err # <<>> /\ ~HasMarker(err)
                    THEN <<TxtError \o err>>
                    ELSE <<>>
              /\ r = [status_code |-> Some(0), std_out |-> TxtOK,
                      std_err |-> <<>>]
                    => output = <<TxtOK>>
              /\ r = [status_code |-> None, std_out |-> TxtHi,
                      std_err |-> TxtClixmlRec]
                    => output = <<TxtHi>>
              /\ r = [status_code |-> None, std_out |-> TxtHi,
                      std_err |-> TxtNotAWrapper]
                    => output = <<TxtHi, TxtErrorNotAWrapper>>

C6_Witness ==
    /\ Handled
    /\ The(result) = [status_code |-> None, std_out |-> TxtHi,
                      std_err |-> TxtClixmlRec]
    /\ output = <<TxtHi>>

\* C7: toggle_multiline flips self.multiline and returns the new value; two
\* toggles in a row restore the value; the flag is False until the first
\* toggle.
C7_ToggleFlips ==
    /\ [](lastOp = "ToggleKey"
            => (multiline = ~preToggle /\ toggleRet = multiline))
    /\ [](pc \in {"main", "Starting"} => multiline = FALSE)
    /\ [][(lastOp = "ToggleKey" /\ lastOp' = "ToggleKey")
            => multiline' = preToggle]_vars
    /\ [][(pc = "Starting" /\ pc' = "AwaitingInput") => multiline' = FALSE]_vars

C7_Witness ==
    /\ lastOp = "ToggleKey"
    /\ preToggle = TRUE
    /\ multiline = FALSE
    /\ toggleRet = FALSE

\* the remote call of the line raised one of the two errors run_cmd_line
\* names
CaughtFailure ==
    /\ raised # None
    /\ The(raised).type \in {"InvalidCredentialsError", "ConnectionError"}

\* C8: in the REPL, when the remote call of a line raises
\* InvalidCredentialsError or ConnectionError, "ERROR: <message>" is printed,
\* nothing is rendered for the line and the loop is back at the prompt; the
\* process does not end.
C8_CaughtErrorKeepsLoop ==
    /\ (mode = "repl" /\ lastOp = "RemoteReturn" /\ CaughtFailure)
         => /\ pc = "Rendering"
            /\ result = None
            /\ output = <<TxtError \o The(raised).msg>>
            /\ reported = <<>>
            /\ exitStatus = None
    /\ (mode = "repl" /\ lastOp = "Render" /\ CaughtFailure)
         => /\ pc = "AwaitingInput"
            /\ output = <<TxtError \o The(raised).msg>>
            /\ reported = <<>>
            /\ exitStatus = None

C8_Witness ==
    /\ mode = "repl"
    /\ lastOp = "Render"
    /\ raised = Some([type |-> "ConnectionError", msg |-> TxtRefused])
    /\ pc = "AwaitingInput"
    /\ output = <<TxtError \o TxtRefused>>

\* C9: in one-shot mode the exit status is the remote exit code whenever the
\* remote call returned a result, and 1 when it did not (blank command, or
\* an error run_cmd_line caught).
C9_Original ==
    (mode = "oneshot" /\ pc \in {"Exited", "Crashed"})
        => /\ result # None => exitStatus = The(result).status_code
           /\ (result = None /\ (IsBlank(cmd_line) \/ CaughtFailure))
                 => exitStatus = Some(1)

\* C10: when --run is given, with any value, the REPL does not run: no
\* prompt query, no Starting, no AwaitingInput, no line read.
C10_Original ==
    runOpt # None
        => /\ pc \notin {"Starting", "AwaitingInput"}
           /\ mode # "repl"
           /\ promptQueries = 0
           /\ lastOp \notin {"GetPromptCall", "GetPromptReturn", "Submit",
                             "ToggleKey", "InputEnd", "InputFault"}

\* the last text printed is an "ERROR: ..." text
LastIsError ==
    /\ output # <<>>
    /\ Len(output[Len(output)]) >= 7
    /\ SubSeq(output[Len(output)], 1, 7) = <<69, 82, 82, 79, 82, 58, 32>>

\* the prompt query failed: the remote call raised, or the path it returned
\* does not decode
PromptFailed ==
    /\ lastOp = "GetPromptReturn"
    /\ \/ raised # None
       \/ /\ result # None
          /\ Decode(BytesStrip(The(result).std_out), encoding) = DecodeFail

\* C11: when the prompt query of Starting fails (the remote call raises an
\* error, one that run_cmd_line catches included, or the answer does not
\* decode), the error is printed and repl returns: the prompt is never shown
\* and no line is ever dispatched.  An interrupt ends the process as well.
C11_PromptFailureTerminates ==
    /\ [](PromptFailed
            => /\ pc \in {"Terminated", "Crashed"}
               /\ exitStatus # None
               /\ prompt_msg = <<>>
               /\ Len(calls) = 1
               /\ (raised = None \/ The(raised).type # "KeyboardInterrupt")
                     => (pc = "Terminated" /\ LastIsError))
    /\ [][PromptFailed => UNCHANGED vars]_vars

C11_Witness ==
    /\ PromptFailed
    /\ raised = Some([type |-> "ConnectionError", msg |-> TxtRefused])
    /\ pc = "Terminated"
    /\ output = <<TxtError \o TxtRefused, TxtError \o TxtNoStdOut>>

\* C12: end of input or an interrupt at the prompt prints the farewell and
\* ends the loop; once the loop has ended nothing more is read and no remote
\* call is made.
C12_InputEndTerminates ==
    /\ [](lastOp = "InputEnd"
            => /\ pc = "Terminated"
               /\ output = <<TxtFarewell>>
               /\ ~inflight
               /\ calls = <<>>)
    /\ [][pc = "Terminated" => UNCHANGED vars]_vars

C12_Witness ==
    /\ lastOp = "InputEnd"
    /\ pc = "Terminated"
    /\ output = <<TxtFarewell>>
    /\ multiline = TRUE

\* C13: any other exception raised while reading input is caught and
\* reported, no remote call is made for that iteration and the loop prompts
\* again; it never ends the loop.
C13_InputFaultKeepsLoop ==
    lastOp = "InputFault"
        => /\ pc = "AwaitingInput"
           /\ reported = <<"InputFault">>
           /\ calls = <<>>
           /\ ~inflight
           /\ output = <<>>
           /\ exitStatus = None

C13_Witness ==
    /\ lastOp = "InputFault"
    /\ pc = "AwaitingInput"
    /\ reported = <<"InputFault">>
    /\ prompt_msg # <<>>

\* the remote call of a submitted line was interrupted (KeyboardInterrupt
\* raised in the main thread while the call was outstanding)
InterruptedInFlight ==
    /\ mode = "repl"
    /\ lastOp = "RemoteReturn"
    /\ raised # None
    /\ The(raised).type = "KeyboardInterrupt"

\* C14 as stated: an interrupt during an outstanding remote call does not
\* end the loop; the loop ends by interrupt only from the prompt.
C14_Original ==
    /\ InterruptedInFlight => pc # "Terminated"
    /\ (mode = "repl" /\ pc = "Terminated" /\ output # <<>>
        /\ output[Len(output)] = TxtFarewell)
          => lastOp = "InputEnd"

\* C14 amended: an interrupt during the outstanding remote call of a
\* submitted line abandons the call: no result is obtained, nothing is
\* rendered, the farewell is printed and the loop ends with exit status 0.
C14_InterruptInFlightTerminates ==
    InterruptedInFlight
        => /\ pc = "Terminated"
           /\ output = <<TxtFarewell>>
           /\ result = None
           /\ reported = <<>>
           /\ ~inflight
           /\ Len(calls) = 1
           /\ exitStatus = Some(0)

C14_Witness ==
    /\ InterruptedInFlight
    /\ pc = "Terminated"
    /\ output = <<TxtFarewell>>
    /\ cmd_line = TxtIpconfigAll

\* the remote call of a submitted line raised an exception that is neither
\* one run_cmd_line names nor an interrupt
UnclassifiedInDispatch ==
    /\ mode = "repl"
    /\ lastOp = "RemoteReturn"
    /\ raised # None
    /\ The(raised).type = "OtherError"

\* C15 as stated: an unclassified exception raised while a line is
\* dispatched in the REPL leaves the loop and ends the process.
C15_Original ==
    UnclassifiedInDispatch => (pc = "Crashed" /\ exitStatus # None)

\* C15 amended: an unclassified exception raised while a line is dispatched
\* in the REPL is caught by the loop's bare except, reported through
\* sys.excepthook, and the loop prompts again; the process goes on.
C15_UnclassifiedFaultKeepsLoop ==
    UnclassifiedInDispatch
        => /\ pc = "AwaitingInput"
           /\ reported = <<"OtherError">>
           /\ output = <<>>
           /\ result = None
           /\ exitStatus = None

C15_Witness ==
    /\ UnclassifiedInDispatch
    /\ pc = "AwaitingInput"
    /\ reported = <<"OtherError">>
    /\ shell = "cmd"

\* a stream of the handled result that handle_cmd_result decodes is not
\* decodable (std_err is decoded only when it is not empty)
SomeStreamUndecodable ==
    \/ ~StdOutDecodes
    \/ The(result).std_err # <<>> /\ ~StdErrDecodes

\* C16 as stated: when a stream does not decode, handle_cmd_result raises and
\* nothing of the command's output is printed.
C16_Original ==
    (Handled /\ SomeStreamUndecodable)
        => /\ reported = <<"UnicodeDecodeError">>
           /\ output = <<>>

\* C16 amended: when a stream does not decode, handle_cmd_result raises
\* UnicodeDecodeError to its caller and substitutes nothing; nothing is
\* printed when std_out is the undecodable stream, but when std_out decodes
\* and std_err does not, the decoded std_out has already been printed and
\* only the error text is lost.
C16_DecodeErrorRaised ==
    (Handled /\ SomeStreamUndecodable)
        => /\ reported = <<"UnicodeDecodeError">>
           /\ output = IF StdOutDecodes
                       THEN <<Decode(The(result).std_out, encoding)>>
                       ELSE <<>>

C16_Witness ==
    /\ Handled
    /\ encoding = "ascii"
    /\ The(result).std_out = BytesDir
    /\ The(result).std_err = BytesEAcute
    /\ output = <<BytesDir>>
    /\ reported = <<"UnicodeDecodeError">>

\* C17: with a nonzero status code and non-empty std_err the text
\* "ERROR (<code>): <stderr>" is printed also when the stderr text starts
\* with "#< CLIXML"; with status 0 the same stderr prints no error text.
C17_SuppressionAsymmetric ==
    (/\ Handled
     /\ StdOutDecodes
     /\ StdErrDecodes
     /\ HasMarker(Decode(The(result).std_err, encoding)))
        => LET r == The(result)
           IN IF r.status_code \in {None, Some(0)}
              THEN ErrorLines = <<>>
              ELSE ErrorLines = <<TxtErrorOpen \o FormatInt(The(r.status_code))
                                  \o TxtErrorMid
                                  \o Decode(r.std_err, encoding)>>

C17_Witness ==
    /\ Handled
    /\ The(result).status_code = Some(3)
    /\ The(result).std_err = TxtClixmlRec
    /\ Len(output) = 2
    /\ output[2] = TxtErrorOpen \o <<51>> \o TxtErrorMid \o TxtClixmlRec

\* C18: for a submitted line at most one remote call is issued, and it is not
\* issued again after an error run_cmd_line caught; a call is outstanding
\* only between its issue and its return, never at the prompt and never
\* while Ctrl-T is handled.
C18_OneCallNoRetry ==
    /\ Len(calls) <= 1
    /\ inflight => (Len(calls) = 1 /\ pc \in {"Starting", "Dispatching"})
    /\ pc \in {"AwaitingInput", "Rendering", "Terminated", "Exited", "Crashed"}
         => ~inflight
    /\ lastOp = "ToggleKey" => (~inflight /\ calls = <<>>)
    /\ (lastOp \in {"RemoteReturn", "Render"} /\ CaughtFailure)
         => (Len(calls) = 1 /\ ~inflight /\ pc \in {"Rendering", "AwaitingInput",
                                                   "Exited"})

C18_Witness ==
    /\ mode = "repl"
    /\ lastOp = "Render"
    /\ raised = Some([type |-> "InvalidCredentialsError", msg |-> TxtDenied])
    /\ Len(calls) = 1
    /\ pc = "AwaitingInput"

\* C19: shell and encoding never change after construction; a toggle changes
\* self.multiline only: shell, encoding and the prompt text stay, and no
\* remote call is issued or outstanding.
C19_ToggleFrame ==
    /\ [][shell' = shell /\ encoding' = encoding]_vars
    /\ [][lastOp' = "ToggleKey"
            => /\ multiline' # multiline
               /\ prompt_msg' = prompt_msg
               /\ promptQueries' = promptQueries
               /\ pc' = pc
               /\ inflight' = inflight
               /\ ~inflight'
               /\ calls' = <<>>]_vars

C19_Witness ==
    /\ lastOp = "ToggleKey"
    /\ shell = "powershell"
    /\ encoding = "utf-8"
    /\ multiline = TRUE
    /\ prompt_msg = TxtPS \o <<233>> \o TxtPSEnd

\* the remote call __run_cmd_line makes for the prompt query of the shell
PromptCall ==
    IF shell = "powershell"
    THEN [fn |-> "run_ps", cmd |-> PwdQuery, args |-> <<>>]
    ELSE [fn |-> "run_cmd", cmd |-> CdQuery, args |-> <<>>]

\* C20: in the REPL the prompt text comes from exactly one query, made in
\* Starting ("(pwd).Path" by run_ps in powershell, "cd" by run_cmd in cmd);
\* it is never queried again and never changes afterwards, and every later
\* remote call is the one of a submitted line.
C20_PromptQueriedOnce ==
    /\ [](promptQueries <= 1)
    /\ [](lastOp = "GetPromptCall" => calls = <<PromptCall>>)
    /\ [](mode = "repl" /\ pc \notin {"main", "Starting"}
            => promptQueries = 1)
    /\ [](mode = "oneshot" => promptQueries = 0)
    /\ [](mode = "repl" /\ pc = "Dispatching" /\ inflight
            => /\ ~IsBlank(cmd_line)
               /\ Len(calls) = 1
               /\ IF calls[1].fn = "run_ps"
                  THEN calls[1].cmd = cmd_line
                  ELSE Flatten(<<calls[1].cmd>> \o calls[1].args)
                         = NonSpace(cmd_line))
    /\ [][pc \notin {"main", "Starting"}
            => (prompt_msg' = prompt_msg /\ promptQueries' = promptQueries)]_vars

C20_Witness ==
    /\ mode = "repl"
    /\ lastOp = "Render"
    /\ pc = "AwaitingInput"
    /\ shell = "cmd"
    /\ promptQueries = 1
    /\ prompt_msg = <<67, 58, 92, 62>>
    /\ calls = <<[fn |-> "run_cmd", cmd |-> TxtIpconfig, args |-> <<TxtAll>>]>>

====
